---- MODULE Spec2Model ----
(***************************************************************************)
(* Jetistik Hub (src/main.py): users, signed cookie tokens, achievement    *)
(* submission with file intake, achievement deletion.                      *)
(***************************************************************************)
EXTENDS Integers, Sequences, FiniteSets, TLC

(* ------------------------------ bounds ------------------------------- *)
MaxUsers == 3
MaxAchievements == 1
MaxUploads == 1
MaxSkew == 1
MaxJumps == 1

(* ----------------------------- constants ------------------------------ *)
None == "<None>"

\* serializer.loads(token, max_age=86400 * 30)
MAX_AGE == 86400 * 30

\* len(content) > 5 * 1024 * 1024
MAX_CONTENT == 5 * 1024 * 1024

(* ------------------------------ inputs -------------------------------- *)
Clients == {"browser1"}
ReqIds == {"r1", "r2"}

Usernames == {"teacher1", "teacher2"}

\* A password is its first 72 bytes followed by the rest.
Passwords == {[head |-> "pw123", tail |-> ""], [head |-> "pw123", tail |-> "x"],
              [head |-> "other", tail |-> ""]}

Levels == {"city", "regional", "national", "international"}
Places == {"1", "2", "3", "certificate"}

\* <<level, place>>: every pair of the form's choices, and pairs with a
\* missing, an empty or an unknown level or place
SampleFields ==
    (Levels \X Places) \cup
    {<<None, "2">>, <<"regional", None>>, <<None, None>>, <<"", "2">>,
     <<"regional", "">>, <<"school", "2">>, <<"regional", "4">>,
     <<"2", "regional">>}

OneField == {<<"regional", "2">>}

AchievementTypes == {"oqushy_status"}

\* file: Optional[UploadFile]. A filename is the sequence of its characters,
\* << >> the empty one; the content is given by its length.
NoFile == [present |-> FALSE, filename |-> << >>, size |-> 0]

(* ------------------------------- state -------------------------------- *)
VARIABLES
    users,          \* rows of table "users"
    achievements,   \* rows of table "achievements"
    remote,         \* objects stored in Cloudinary
    local,          \* files under UPLOAD_DIR
    uuids,          \* number of uuid.uuid4() values drawn so far
    jar,            \* the "token" cookie each browser holds
    now,            \* the clock, in seconds
    ALLOW_REGISTRATION,
    regs,           \* the POST /register requests in flight
    last            \* the request handled by the last step, and its response

vars == <<users, achievements, remote, local, uuids, jar, now,
          ALLOW_REGISTRATION, regs, last>>

db == <<users, achievements>>
storage == <<remote, local, uuids>>

(* ----------------------------- responses ------------------------------ *)
NoCookie == [act |-> "none"]

Response(status, path, query, cookie) ==
    [status |-> status, path |-> path, query |-> query, cookie |-> cookie]

\* RedirectResponse(url, status_code=307)
RedirectResponse(path, query, status) == Response(status, path, query, NoCookie)

TemplateResponse(name) == Response(200, name, "", NoCookie)

\* raise HTTPException(status_code=403)
HTTPException(status) == Response(status, "", "", NoCookie)

\* an exception that leaves the handler: the framework answers 500
ServerFault == Response(500, "", "", NoCookie)

\* no response yet: the handler goes on
Continue == Response(0, "", "", NoCookie)

NoReq == [op |-> "none", resp |-> Continue]

(* --------------------------- credential store ------------------------- *)
\* password.encode('utf-8')[:72]
Truncate72(password) == password.head

\* bcrypt.hashpw(password_bytes, bcrypt.gensalt())
hashpw(password) == <<"bcrypt", Truncate72(password)>>

\* User.check_password
check_password(user, password) == hashpw(password) = user.password_hash

NoUser == [id |-> 0, username |-> "", password_hash |-> <<"", "">>,
           is_admin |-> FALSE]

AdminUser == [id |-> 1, username |-> "admin",
              password_hash |-> hashpw([head |-> "pw123", tail |-> ""]),
              is_admin |-> TRUE]

\* db.query(User).filter(User.username == username).first()
UserByName(username) ==
    IF \E u \in users : u.username = username
    THEN CHOOSE u \in users : u.username = username
    ELSE NoUser

\* db.query(User).filter(User.id == user_id).first()
UserById(user_id) ==
    IF \E u \in users : u.id = user_id
    THEN CHOOSE u \in users : u.id = user_id
    ELSE NoUser

SetMax(S) == IF S = {} THEN 0 ELSE CHOOSE m \in S : \A n \in S : n <= m

\* the id the database gives the next inserted row
NextId(rows) == SetMax({r.id : r \in rows}) + 1

(* ------------------------------- tokens ------------------------------- *)
NoToken == [sig |-> "absent", user_id |-> 0, ts |-> 0]

\* serializer.dumps({"user_id": user.id})
dumps(user_id) == [sig |-> "ok", user_id |-> user_id, ts |-> now]

\* serializer.loads(token, max_age=...): the payload, or the exception raised
loads(token, max_age) ==
    IF token.sig # "ok" THEN [exc |-> "BadSignature"]
    ELSE IF now - token.ts > max_age THEN [exc |-> "SignatureExpired"]
    ELSE [exc |-> "", user_id |-> token.user_id]

\* the payload read without verifying the signature or the age
get_current_user_unverified(token) ==
    IF token = NoToken THEN NoUser ELSE UserById(token.user_id)

get_current_user(token) ==
    IF token = NoToken THEN NoUser
    ELSE LET data == loads(token, MAX_AGE)
         IN  IF data.exc # "" THEN NoUser ELSE UserById(data.user_id)

\* the tokens a browser can send: none, the cookie it holds, a forged one
Presentable(c) ==
    {NoToken, jar[c]} \cup
    {[sig |-> "forged", user_id |-> u.id, ts |-> now] : u \in users}

(* -------------------------------- clock ------------------------------- *)
Tick ==
    /\ \E d \in {1, MAX_AGE} :
          /\ d = 1 => now % MAX_AGE < MaxSkew
          /\ d = MAX_AGE => now < MaxJumps * MAX_AGE
          /\ now' = now + d
    /\ last' = NoReq
    /\ UNCHANGED <<db, storage, jar, ALLOW_REGISTRATION, regs>>

(* ----------------------------- POST /login ---------------------------- *)
\* login answering an unknown username apart from a wrong password
login_distinguishing(c, username, password) ==
    LET user == UserByName(username)
        resp == IF user = NoUser
                THEN RedirectResponse("/login", "error=user_not_found", 303)
                ELSE IF ~check_password(user, password)
                THEN RedirectResponse("/login", "error=invalid_credentials", 303)
                ELSE Response(303, "/home", "",
                              [act |-> "set", token |-> dumps(user.id)])
    IN  /\ last' = [op |-> "login", resp |-> resp, username |-> username]
        /\ jar' = IF resp.cookie.act = "set"
                  THEN [jar EXCEPT ![c] = resp.cookie.token] ELSE jar
        /\ UNCHANGED <<db, storage, now, ALLOW_REGISTRATION, regs>>

login(c, username, password) ==
    LET user == UserByName(username)
        resp == IF user = NoUser \/ ~check_password(user, password)
                THEN RedirectResponse("/login", "error=invalid_credentials", 303)
                ELSE Response(303, "/home", "",
                              [act |-> "set", token |-> dumps(user.id)])
    IN  /\ last' = [op |-> "login", resp |-> resp, username |-> username]
        /\ jar' = IF resp.cookie.act = "set"
                  THEN [jar EXCEPT ![c] = resp.cookie.token] ELSE jar
        /\ UNCHANGED <<db, storage, now, ALLOW_REGISTRATION, regs>>

(* ----------------------------- GET /logout ---------------------------- *)
logout(c) ==
    /\ last' = [op |-> "logout",
                resp |-> Response(303, "/login", "", [act |-> "delete"])]
    /\ jar' = [jar EXCEPT ![c] = NoToken]
    /\ UNCHANGED <<db, storage, now, ALLOW_REGISTRATION, regs>>

(* ---------------------------- POST /register -------------------------- *)
Idle == [pc |-> "idle"]

\* lines 306-325: the checks, up to the construction of new_user
register(r, username, password, confirm_password) ==
    LET existing_user == UserByName(username)
        resp == IF ~ALLOW_REGISTRATION
                THEN RedirectResponse("/login", "", 307)
                ELSE IF password # confirm_password
                THEN RedirectResponse("/register", "error=passwords_dont_match", 303)
                ELSE IF existing_user # NoUser
                THEN RedirectResponse("/register", "error=username_exists", 303)
                ELSE Continue
    IN  /\ regs[r] = Idle
        /\ regs' = IF resp # Continue THEN regs
                   ELSE [regs EXCEPT ![r] =
                           [pc |-> "commit", username |-> username,
                            password_hash |-> hashpw(password)]]
        /\ last' = IF resp # Continue THEN [op |-> "register", resp |-> resp]
                   ELSE NoReq
        /\ UNCHANGED <<db, storage, jar, now, ALLOW_REGISTRATION>>

\* lines 326-329: db.add(new_user); db.commit(). users.username is unique:
\* the commit of a second row with the name raises IntegrityError, which
\* nothing catches.
register_commit(r) ==
    LET new_user == [id |-> NextId(users), username |-> regs[r].username,
                     password_hash |-> regs[r].password_hash,
                     is_admin |-> FALSE]
        IntegrityError == UserByName(regs[r].username) # NoUser
    IN  /\ regs[r] # Idle
        /\ IntegrityError \/ Cardinality(users) < MaxUsers
        /\ users' = IF IntegrityError THEN users ELSE users \cup {new_user}
        /\ regs' = [regs EXCEPT ![r] = Idle]
        /\ last' = [op |-> "register",
                    resp |-> IF IntegrityError THEN ServerFault
                             ELSE RedirectResponse("/login", "success=registered", 303)]
        /\ UNCHANGED <<achievements, storage, jar, now, ALLOW_REGISTRATION>>

(* ----------------------------- points table --------------------------- *)
points_table ==
    ("city"          :> ("1" :> 35 @@ "2" :> 30 @@ "3" :> 25 @@ "certificate" :> 10)) @@
    ("regional"      :> ("1" :> 40 @@ "2" :> 35 @@ "3" :> 30 @@ "certificate" :> 15)) @@
    ("national"      :> ("1" :> 45 @@ "2" :> 40 @@ "3" :> 35 @@ "certificate" :> 20)) @@
    ("international" :> ("1" :> 50 @@ "2" :> 45 @@ "3" :> 40 @@ "certificate" :> 25))

\* dict.get(key, default)
dict_get(d, key, default) == IF key \in DOMAIN d THEN d[key] ELSE default

\* the truth value of an Optional[str]
Truthy(str) == str # None /\ str # ""

\* the lookup with level and place taken in the wrong order
calculated_points_swapped(level, place) ==
    IF Truthy(level) /\ Truthy(place)
    THEN dict_get(dict_get(points_table, place, << >>), level, 0)
    ELSE 0

\* lines 395-397
calculated_points(level, place) ==
    IF Truthy(level) /\ Truthy(place)
    THEN dict_get(dict_get(points_table, level, << >>), place, 0)
    ELSE 0

(* ------------------------------ file intake --------------------------- *)
\* file.filename.split(".")[-1]
file_ext(filename) ==
    LET dot == SetMax({i \in 1..Len(filename) : filename[i] = "."})
    IN  SubSeq(filename, dot + 1, Len(filename))

\* f"{uuid.uuid4()}.{file_ext}"
unique_filename(uuid, ext) == [uuid |-> uuid, ext |-> ext]

\* open(os.path.join(UPLOAD_DIR, name), "wb") raises FileNotFoundError when
\* the name has a directory part: UPLOAD_DIR holds no directory named by a
\* fresh uuid.
open_raises(name) == \E i \in 1..Len(name.ext) : name.ext[i] = "/"

NoPath == [kind |-> "none"]

\* upload_result['secure_url']
secure_url(public_id) == [kind |-> "remote", public_id |-> public_id]

\* f"/uploads/{unique_filename}"
uploads_url(name) == [kind |-> "local", name |-> name]

\* if file and file.filename
HasAttachment(file) == file.present /\ file.filename # << >>

\* len(content) > 5 * 1024 * 1024
too_large_ge(content_len) == content_len >= MAX_CONTENT

too_large(content_len) == content_len > MAX_CONTENT

\* f"/{achievement_type}"
type_url(achievement_type) ==
    IF achievement_type = "oqushy_status" THEN "/oqushy_status"
    ELSE IF achievement_type = "sapa_qorzhyn" THEN "/sapa_qorzhyn"
    ELSE "/"

\* f"/{achievement_type.replace('_', '-')}"
replaced_url(achievement_type) ==
    IF achievement_type = "oqushy_status" THEN "/oqushy-status"
    ELSE IF achievement_type = "sapa_qorzhyn" THEN "/sapa-qorzhyn"
    ELSE "/"

(* ------------------------- POST /add-achievement ---------------------- *)
\* upload_ok: whether cloudinary.uploader.upload returns (or raises)
add_achievement(c, token, achievement_type, level, place, file, upload_ok) ==
    LET user == get_current_user(token)
        attached == HasAttachment(file)
        rejected == attached /\ too_large(file.size)
        stored == user # NoUser /\ attached /\ ~rejected
        public_id == uuids + 1
        name == unique_filename(uuids + 2, file_ext(file.filename))
        fallback == stored /\ ~upload_ok
        crashed == fallback /\ open_raises(name)
        file_path == IF ~stored THEN NoPath
                     ELSE IF upload_ok THEN secure_url(public_id)
                     ELSE uploads_url(name)
        created == user # NoUser /\ ~rejected /\ ~crashed
        new_achievement ==
            [id |-> NextId(achievements), user_id |-> user.id,
             achievement_type |-> achievement_type, level |-> level,
             place |-> place, file_path |-> file_path,
             points |-> calculated_points(level, place)]
        resp == IF user = NoUser THEN RedirectResponse("/login", "", 307)
                ELSE IF rejected
                THEN RedirectResponse(type_url(achievement_type),
                                      "error=file_too_large", 303)
                ELSE IF crashed THEN ServerFault
                ELSE RedirectResponse(replaced_url(achievement_type),
                                      "success=added", 303)
    IN  /\ stored => uuids < 2 * MaxUploads
        /\ created => Cardinality(achievements) < MaxAchievements
        /\ remote' = IF stored /\ upload_ok
                     THEN remote \cup {[public_id |-> public_id, size |-> file.size]}
                     ELSE remote
        /\ local' = IF fallback /\ ~crashed
                    THEN local \cup {[name |-> name, size |-> file.size]}
                    ELSE local
        /\ uuids' = IF ~stored THEN uuids
                    ELSE IF upload_ok THEN uuids + 1 ELSE uuids + 2
        /\ achievements' = IF created THEN achievements \cup {new_achievement}
                           ELSE achievements
        /\ last' = [op |-> "add_achievement", resp |-> resp]
        /\ UNCHANGED <<users, jar, now, ALLOW_REGISTRATION, regs>>

(* -------------------- POST /achievement/{id}/delete ------------------- *)
delete_achievement(c, token, achievement_id) ==
    LET user == get_current_user(token)
        found == {a \in achievements :
                     a.id = achievement_id /\ a.user_id = user.id}
    IN  /\ achievements' = IF user # NoUser THEN achievements \ found
                           ELSE achievements
        /\ last' = [op |-> "delete_achievement",
                    resp |-> IF user = NoUser
                             THEN RedirectResponse("/login", "", 307)
                             ELSE RedirectResponse("/jeke-cabinet", "", 303)]
        /\ UNCHANGED <<users, storage, jar, now, ALLOW_REGISTRATION, regs>>

(* ------------------------------ GET pages ----------------------------- *)
\* home_page, jeke_cabinet, jetistik_alany, oqushy_status, sapa_qorzhyn,
\* qogam_serpin, tarbie_arnasy
UserPages == {"/home", "/jeke-cabinet", "/jetistik-alany", "/oqushy-status",
              "/sapa-qorzhyn", "/qogam-serpin", "/tarbie-arnasy"}

user_page(c, token, path) ==
    LET user == get_current_user(token)
    IN  /\ last' = [op |-> path,
                    resp |-> IF user = NoUser
                             THEN RedirectResponse("/login", "", 307)
                             ELSE TemplateResponse(path)]
        /\ UNCHANGED <<db, storage, jar, now, ALLOW_REGISTRATION, regs>>

admin_page(c, token) ==
    LET user == get_current_user(token)
    IN  /\ last' = [op |-> "/admin",
                    resp |-> IF user = NoUser \/ ~user.is_admin
                             THEN HTTPException(403)
                             ELSE TemplateResponse("/admin")]
        /\ UNCHANGED <<db, storage, jar, now, ALLOW_REGISTRATION, regs>>

(* ------------------------------- routing ------------------------------ *)
\* the @app.get / @app.post decorators
Routes == {<<"GET", "/">>, <<"GET", "/set-language/{lang}">>,
           <<"GET", "/login">>, <<"POST", "/login">>, <<"GET", "/logout">>,
           <<"GET", "/register">>, <<"POST", "/register">>,
           <<"GET", "/admin">>, <<"POST", "/add-achievement">>,
           <<"POST", "/achievement/{achievement_id}/delete">>} \cup
          {<<"GET", p>> : p \in UserPages}

\* a request no route matches: the framework answers 404 Not Found
unrouted(c, token, method, path) ==
    /\ <<method, path>> \notin Routes
    /\ last' = [op |-> path, resp |-> Response(404, "", "", NoCookie)]
    /\ UNCHANGED <<db, storage, jar, now, ALLOW_REGISTRATION, regs>>

(* --------------------------- specification ---------------------------- *)
\* The database outlives the process: it is empty, or holds the admin row.
Init ==
    /\ users \in {{}, {AdminUser}}
    /\ achievements = {}
    /\ remote = {}
    /\ local = {}
    /\ uuids = 0
    /\ jar = [c \in Clients |-> NoToken]
    /\ now = 0
    /\ ALLOW_REGISTRATION \in BOOLEAN
    /\ regs = [r \in ReqIds |-> Idle]
    /\ last = NoReq

(* The handlers, with their inputs drawn from the given sets. *)
Logins(names, pws) ==
    \/ \E c \in Clients, u \in names, p \in pws : login(c, u, p)
    \/ \E c \in Clients : logout(c)

Registrations(rs, names, pws) ==
    \/ \E r \in rs, u \in names, p, q \in pws : register(r, u, p, q)
    \/ \E r \in rs : register_commit(r)

Pages(paths) ==
    \/ \E c \in Clients : \E t \in Presentable(c) :
          \E path \in paths : user_page(c, t, path)
    \/ \E c \in Clients : \E t \in Presentable(c) : admin_page(c, t)

Submissions(fields, files, oks) ==
    \/ \E c \in Clients : \E t \in Presentable(c) :
          \E ty \in AchievementTypes, lp \in fields, f \in files, ok \in oks :
             add_achievement(c, t, ty, lp[1], lp[2], f, ok)
    \/ \E c \in Clients : \E t \in Presentable(c) :
          \E id \in 1..MaxAchievements : delete_achievement(c, t, id)

OtherPaths == {"/achievement/{achievement_id}/approve",
               "/achievement/{achievement_id}/reject"}

Unrouted ==
    \E c \in Clients : \E t \in Presentable(c) :
        \E path \in OtherPaths : unrouted(c, t, "POST", path)

OnePassword == {[head |-> "pw123", tail |-> ""]}

SampleFiles == {NoFile} \cup
   [present : {TRUE}, size : {MAX_CONTENT},
    filename : {<<"a", ".", "P", "d", "f">>, <<"a", ".", "e", "x", "e">>,
                <<"a", ".", "/", "b">>}] \cup
   [present : {TRUE}, size : {MAX_CONTENT + 1},
    filename : {<< >>, <<"a", ".", "p", "d", "f">>}]

(* Accounts: concurrent registration and login. *)
NextAccounts ==
    \/ Tick
    \/ Logins(Usernames \cup {"admin"}, Passwords)
    \/ Registrations(ReqIds, Usernames, Passwords)
    \/ Pages({"/home"})

SpecAccounts == Init /\ [][NextAccounts]_vars

(* Sessions: tokens of every kind against every token-protected route. *)
NextSessions ==
    \/ Tick
    \/ Logins({"teacher1", "admin"}, OnePassword)
    \/ Registrations({"r1"}, {"teacher1"}, OnePassword)
    \/ Pages(UserPages)
    \/ Submissions(OneField, {NoFile}, {TRUE})

SpecSessions == Init /\ [][NextSessions]_vars

(* Achievements: submission with file intake, deletion, moderation. *)
NextAchievements ==
    \/ Logins(Usernames \cup {"admin"}, OnePassword)
    \/ Registrations({"r1"}, Usernames, OnePassword)
    \/ Submissions(OneField, SampleFiles, BOOLEAN)
    \/ Unrouted

SpecAchievements == Init /\ [][NextAchievements]_vars

(* Intake: one teacher's submissions with every sample file. *)
NextIntake ==
    \/ Logins({"teacher1"}, OnePassword)
    \/ Registrations({"r1"}, {"teacher1"}, OnePassword)
    \/ Submissions(OneField, SampleFiles, BOOLEAN)

SpecIntake == Init /\ [][NextIntake]_vars

(* Points: one teacher's submissions with every (level, place). *)
NextPoints ==
    \/ Logins({"teacher1"}, OnePassword)
    \/ Registrations({"r1"}, {"teacher1"}, OnePassword)
    \/ Submissions(SampleFields, {NoFile}, {TRUE})

SpecPoints == Init /\ [][NextPoints]_vars

(* ============================ properties ============================= *)

\* The policy table of the points, as <<level, place, points>>.
Tabulated ==
    {<<"city", "1", 35>>, <<"city", "2", 30>>, <<"city", "3", 25>>,
     <<"city", "certificate", 10>>,
     <<"regional", "1", 40>>, <<"regional", "2", 35>>, <<"regional", "3", 30>>,
     <<"regional", "certificate", 15>>,
     <<"national", "1", 45>>, <<"national", "2", 40>>, <<"national", "3", 35>>,
     <<"national", "certificate", 20>>,
     <<"international", "1", 50>>, <<"international", "2", 45>>,
     <<"international", "3", 40>>, <<"international", "certificate", 25>>}

\* C1: a row created by add-achievement stores the tabulated points of its
\* (level, place) when both are in the table's domain and 0 for every other
\* input, and no step changes the points of a row that already exists.
C1_PointsTabulated ==
    [][/\ \A a \in achievements' \ achievements :
             IF \E t \in Tabulated : t[1] = a.level /\ t[2] = a.place
             THEN <<a.level, a.place, a.points>> \in Tabulated
             ELSE a.points = 0
       /\ \A a \in achievements : \A b \in achievements' :
             b.id = a.id => b.points = a.points]_vars

\* a stored row with tabulated points
C1_Witness ==
    \E a \in achievements :
        a.level = "regional" /\ a.place = "2" /\ a.points = 35

NoDuplicateUsernames ==
    \A u1, u2 \in users : u1.username = u2.username => u1 = u2

UsernameExists == RedirectResponse("/register", "error=username_exists", 303)

\* C2: of two interleaved register requests with the same free username, one
\* creates the user and the other ends as a username-exists conflict: the
\* commit of a request that passed the checks either inserts the row or
\* answers the conflict, never leaves two rows with the name, and never ends
\* in a server fault.
C2_ConcurrentRegister ==
    [][\A r \in ReqIds :
          register_commit(r) =>
             /\ NoDuplicateUsernames'
             /\ last'.resp.status # 500
             /\ (users' # users) # (last'.resp = UsernameExists)]_vars

\* the status of an authorization failure
Forbidden == 403

\* C3: delete(id, actingUser) on an existing Achievement removes the row
\* exactly when the acting user owns it or is an admin; for any other
\* authenticated user the request fails with an authorization failure and
\* the rows are left unchanged.
C3_DeleteAuthorization ==
    [][\A c \in Clients : \A t \in Presentable(c) : \A a \in achievements :
          LET user == get_current_user(t)
          IN  (delete_achievement(c, t, a.id) /\ user # NoUser) =>
                 IF a.user_id = user.id \/ user.is_admin
                 THEN a \notin achievements'
                 ELSE /\ last'.resp.status = Forbidden
                      /\ achievements' = achievements]_vars

\* C4: after a delete that removed an Achievement whose file reference is a
\* local file, that file is no longer in the local upload storage; a delete
\* of an Achievement without a file reference succeeds without error.
C4_DeleteRemovesLocalFile ==
    [][\A a \in achievements \ achievements' :
          /\ a.file_path.kind = "local" =>
                \A f \in local' : f.name # a.file_path.name
          /\ a.file_path.kind = "none" =>
                last'.resp.status \in {303, 307}]_vars

FileTooLarge(achievement_type) ==
    [status |-> 303, path |-> type_url(achievement_type),
     query |-> "error=file_too_large", cookie |-> [act |-> "none"]]

LowerChar(ch) == IF ch = "P" THEN "p" ELSE ch

Lower(str) == [i \in 1..Len(str) |-> LowerChar(str[i])]

AllowedExtensions ==
    {<<"p", "d", "f">>, <<"j", "p", "g">>, <<"j", "p", "e", "g">>,
     <<"p", "n", "g">>, <<"d", "o", "c">>, <<"d", "o", "c", "x">>,
     <<"x", "l", "s", "x">>}

\* the part of the filename after its last dot
Extension(filename) ==
    LET dots == {i \in 1..Len(filename) : filename[i] = "."}
    IN  IF dots = {} THEN filename
        ELSE SubSeq(filename, SetMax(dots) + 1, Len(filename))

\* C6: add-achievement with an attachment whose filename extension, compared
\* case-insensitively, is outside {pdf, jpg, jpeg, png, doc, docx, xlsx} is
\* rejected: no Achievement is created and no bytes are stored.
C6_ExtensionRejected ==
    [][\A c \in Clients : \A t \in Presentable(c) :
       \A ty \in AchievementTypes, f \in SampleFiles, ok \in BOOLEAN :
          (/\ add_achievement(c, t, ty, "regional", "2", f, ok)
           /\ f.present /\ f.filename # << >>
           /\ Lower(Extension(f.filename)) \notin AllowedExtensions) =>
             /\ achievements' = achievements
             /\ remote' = remote
             /\ local' = local
             /\ last'.resp.query # "success=added"]_vars

\* C7: when an authenticated add-achievement carries an attachment within
\* the size limit and the remote upload fails, the bytes are written once to
\* the local upload directory under a fresh name, the Achievement is created
\* with a file reference to that local file, the request does not fail, and
\* nothing is stored remotely by a second attempt.
C7_FallbackOnRemoteFailure ==
    [][\A c \in Clients : \A t \in Presentable(c) :
       \A ty \in AchievementTypes, f \in SampleFiles :
          (/\ add_achievement(c, t, ty, "regional", "2", f, FALSE)
           /\ get_current_user(t) # NoUser
           /\ f.present /\ f.filename # << >>
           /\ f.size <= 5 * 1024 * 1024) =>
             /\ remote' = remote
             /\ last'.resp.status \in {303, 307}
             /\ last'.resp.query = "success=added"
             /\ \E g \in local' \ local :
                   /\ local' = local \cup {g}
                   /\ g.size = f.size
                   /\ \A h \in local : h.name # g.name
                   /\ \E a \in achievements' \ achievements :
                         a.file_path = [kind |-> "local", name |-> g.name]]_vars

\* a token that is missing, tampered, or older than 30 days
BadToken(t) == t.sig # "ok" \/ now - t.ts > 30 * 86400

\* a request to one of the token-protected routes
ProtectedRequest(c, t) ==
    \/ \E path \in UserPages : user_page(c, t, path)
    \/ admin_page(c, t)
    \/ \E ty \in AchievementTypes, ok \in BOOLEAN :
          add_achievement(c, t, ty, "regional", "2", NoFile, ok)
    \/ \E id \in 1..MaxAchievements : delete_achievement(c, t, id)

\* C8: a request with a missing, tampered or expired token is unauthenticated:
\* on every token-protected route it is redirected to login, it creates,
\* changes or deletes no User or Achievement row, and it does not end in a
\* server fault.
C8_BadTokenRedirected ==
    [][\A c \in Clients : \A t \in Presentable(c) :
          (BadToken(t) /\ ProtectedRequest(c, t)) =>
             /\ last'.resp.status \in {303, 307}
             /\ last'.resp.path = "/login"
             /\ users' = users
             /\ achievements' = achievements]_vars

InvalidCredentials ==
    [status |-> 303, path |-> "/login", query |-> "error=invalid_credentials",
     cookie |-> [act |-> "none"]]

\* C9: login answers an unknown username and a wrong password for a known
\* one with the same response (the same redirect and error indicator, no
\* token cookie); it issues a token only when the username exists and the
\* password matches the stored hash, and the token is that user's.
C9_LoginUniformFailure ==
    [][\A c \in Clients, u \in Usernames \cup {"admin"}, p \in Passwords :
          (last'.op = "login" /\ login(c, u, p)) =>
             LET matching == {x \in users : /\ x.username = u
                                            /\ x.password_hash = <<"bcrypt", p.head>>}
             IN  /\ matching = {} =>
                       last'.resp = InvalidCredentials /\ jar' = jar
                 /\ (last'.resp.cookie.act = "set" \/ jar' # jar) =>
                       \E x \in matching :
                          /\ last'.resp.cookie.token.user_id = x.id
                          /\ jar'[c] = last'.resp.cookie.token]_vars

\* a login with a wrong password for an existing user was just refused
C9_Witness ==
    /\ last.op = "login"
    /\ last.resp = InvalidCredentials
    /\ \E x \in users : x.username = last.username

\* the status column of a row, None when the row has none
Status(a) == IF "status" \in DOMAIN a THEN a.status ELSE None

\* C10: an Achievement has status pending right after creation, a step
\* leaves a row's status other than pending only through an admin's approve
\* or reject, and approve or reject by a non-admin fails with an
\* authorization error and leaves the rows unchanged.
C10_StatusPending ==
    [][/\ \A a \in achievements' \ achievements : Status(a) = "pending"
       /\ \A c \in Clients : \A t \in Presentable(c) : \A path \in OtherPaths :
             (/\ unrouted(c, t, "POST", path)
              /\ get_current_user(t) # NoUser
              /\ ~get_current_user(t).is_admin) =>
                /\ last'.resp.status = Forbidden
                /\ achievements' = achievements]_vars

\* C11: in every state reached by register, login, logout, add-achievement
\* and delete requests, each Achievement's user_id is the id of an existing
\* User, and a row a request creates is owned by the user whose token, issued
\* by login, signed and not older than 30 days, the browser holds: no request
\* creates a row owned by another user or by no user.
C11_OwnerIsAuthenticatedUser ==
    [][/\ \A a \in achievements' : \E u \in users' : u.id = a.user_id
       /\ \A a \in achievements' \ achievements :
             \E c \in Clients :
                /\ jar[c].sig = "ok"
                /\ now - jar[c].ts <= 30 * 86400
                /\ jar[c].user_id = a.user_id
                /\ a.user_id # 0]_vars

\* a registered teacher owns a stored row
C11_Witness ==
    \E a \in achievements : \E u \in users :
        u.id = a.user_id /\ u.username = "teacher1" /\ ~u.is_admin
====
